---------------------------- MODULE Spec2Model ----------------------------
(***************************************************************************)
(* Model of the bulk e-mail dispatcher, src/src/send-email/                *)
(* lambda_function.py.  One invocation of lambda_handler is a small state  *)
(* machine whose steps are the stretches of the handler between two calls  *)
(* of a collaborator (S3, SES, DynamoDB).  Every variable that belongs to  *)
(* an invocation is a function over Runs; the audit table and the uuid     *)
(* source are shared.                                                      *)
(*                                                                         *)
(* Text is a sequence of tokens: "{", "}", "\n", "\r" are single           *)
(* characters, any other token is a word (a run of characters holding no   *)
(* brace and no line break), so the regular expression {{(.*?)}} and       *)
(* str.format read a token sequence exactly as they read the string.       *)
(***************************************************************************)
EXTENDS Integers, Sequences, FiniteSets, TLC

\* ------------------------------------------------------------------ bounds
MaxRows == 2      \* rows of a recipient table
MaxSegs == 2      \* segments a template is concatenated from
MaxValSegs == 3   \* segments of a template given to validate_template alone
MaxFiles == 3     \* items of the file table
MaxLimit == 2     \* largest page size a request asks for

\* ------------------------------------------------------------- Python values
None == "None"    \* Python None (dict.get of an absent key)
NaN  == "NaN"     \* float nan: what pandas.read_excel gives for an empty cell
Addresses == {"a@example.com", "b@example.com"}

\* bool(v) of a scalar: None and "" are falsy; a non-empty str and nan are truthy
Truthy(v) == v \notin {None, ""}

\* identifiers are pairs, so that generated and supplied ones compare
NoId     == <<"none", 0>>        \* body.get("run_id") is None
EmptyId  == <<"empty", 0>>       \* "run_id": ""
CallerId == <<"caller", 1>>      \* a run_id the caller supplies
Uuid(n)  == <<"uuid4", n>>       \* the n-th value of uuid.uuid4().hex
IdTruthy(id) == id \notin {NoId, EmptyId}

Runs == {"r1", "r2"}

\* ------------------------------------------------------------------ inputs
FieldValues == {None, "", "given"}
RunIdValues == {NoId, EmptyId, CallerId}

MalformedEvent ==
    [kind |-> "malformed", template_file_id |-> None, spreadsheet_file_id |-> None,
     subject |-> None, display_name |-> None, run_id |-> NoId]

NoEvent == [MalformedEvent EXCEPT !.kind = "none"]

\* event["body"] parsed by json.loads: an object with any of the five fields
\* absent (None), empty or given; or a body json.loads / body.get cannot read
Events ==
    {MalformedEvent} \cup
    [kind : {"object"}, template_file_id : FieldValues, spreadsheet_file_id : FieldValues,
     subject : FieldValues, display_name : FieldValues, run_id : RunIdValues]

\* a placeholder {{w}} as tokens
PH(w) == <<"{", "{", w, "}", "}">>

Segments == {PH("Name"), PH("Phone"), <<"{">>, <<"}">>, <<"Hi">>, <<"\r">>}

RECURSIVE Concats(_)
Concats(n) ==
    IF n = 0 THEN {<<>>}
    ELSE Concats(n - 1) \cup {t \o s : t \in Concats(n - 1), s \in Segments}

Templates == Concats(MaxSegs)

ColumnSets == {{"Name"}, {"Name", "Email"}}
EmailValues == {NaN} \cup Addresses

\* a row of DataFrame.to_dict(orient='records'): every column is a key
RowsOver(cols) ==
    {[c \in cols |-> IF c = "Email" THEN e ELSE "txt"] :
        e \in (IF "Email" \in cols THEN EmailValues ELSE {"txt"})}

RECURSIVE SeqsUpTo(_, _)
SeqsUpTo(S, n) ==
    IF n = 0 THEN {<<>>}
    ELSE SeqsUpTo(S, n - 1) \cup
         {Append(q, x) : q \in {p \in SeqsUpTo(S, n - 1) : Len(p) = n - 1}, x \in S}

\* the non-empty tables read_sheet_data_from_s3 can return
Tables ==
    UNION {{[rows |-> q, columns |-> cols] :
              q \in {p \in SeqsUpTo(RowsOver(cols), MaxRows) : p # <<>>}} :
           cols \in ColumnSets}

\* row.get(key)
RowGet(row, key) == IF key \in DOMAIN row THEN row[key] ELSE None


\* ------------------------------------------------ re: the pattern {{(.*?)}}
\* the first k >= j with "}}" at k, or 0
FirstClose(t, j) ==
    LET closes == {k \in j..(Len(t) - 1) : t[k] = "}" /\ t[k + 1] = "}"}
    IN  IF closes = {} THEN 0 ELSE CHOOSE k \in closes : \A m \in closes : k <= m

\* "." matches any character but a line feed
DotMatches(t, a, b) == \A k \in a..b : t[k] # "\n"

\* the non-overlapping matches of {{(.*?)}} from position i on, left to right:
\* the lazy group ends at the first "}}" and cannot cross a line feed
RECURSIVE PlaceholderMatches(_, _)
PlaceholderMatches(t, i) ==
    IF i + 3 > Len(t) THEN <<>>
    ELSE IF t[i] = "{" /\ t[i + 1] = "{"
         THEN LET k == FirstClose(t, i + 2)
              IN  IF k # 0 /\ DotMatches(t, i + 2, k - 1)
                  THEN <<[start |-> i, end |-> k + 1, name |-> SubSeq(t, i + 2, k - 1)]>>
                       \o PlaceholderMatches(t, k + 2)
                  ELSE PlaceholderMatches(t, i + 1)
         ELSE PlaceholderMatches(t, i + 1)

\* re.findall(r'{{(.*?)}}', template_content)
FindAll(t) ==
    LET ms == PlaceholderMatches(t, 1)
    IN  [k \in 1..Len(ms) |-> ms[k].name]

\* placeholder in columns: a captured string equals a column name
InColumns(name, columns) == Len(name) = 1 /\ name[1] \in columns

\* line 51 looking at the first placeholder only
FilterFirst(names, columns) ==
    IF names = <<>> \/ InColumns(Head(names), columns) THEN <<>> ELSE <<Head(names)>>

\* line 51: [placeholder for placeholder in placeholders if placeholder not in columns]
RECURSIVE Filter(_, _)
Filter(names, columns) ==
    IF names = <<>> THEN <<>>
    ELSE (IF InColumns(Head(names), columns) THEN <<>> ELSE <<Head(names)>>)
         \o Filter(Tail(names), columns)

validate_template(template_content, columns) == Filter(FindAll(template_content), columns)

\* --------------------------------------------------------------- rendering
\* template_content.replace("\r", "")
RECURSIVE RemoveCR(_)
RemoveCR(t) ==
    IF t = <<>> THEN <<>>
    ELSE (IF Head(t) = "\r" THEN <<>> ELSE <<Head(t)>>) \o RemoveCR(Tail(t))

\* re.sub(r'\{\{(.*?)\}\}', r'{\1}', template_content), given the matches
RECURSIVE SubFrom(_, _, _)
SubFrom(t, ms, i) ==
    IF ms = <<>> THEN SubSeq(t, i, Len(t))
    ELSE SubSeq(t, i, Head(ms).start - 1) \o <<"{">> \o Head(ms).name \o <<"}">>
         \o SubFrom(t, Tail(ms), Head(ms).end + 1)

ToFormatSyntax(t) == SubFrom(t, PlaceholderMatches(t, 1), 1)

\* the first k >= j holding a brace, or 0
FirstBrace(t, j) ==
    LET braces == {k \in j..Len(t) : t[k] \in {"{", "}"}}
    IN  IF braces = {} THEN 0 ELSE CHOOSE k \in braces : \A m \in braces : k <= m

\* whether str.format(**row) returns (TRUE) or raises (FALSE): "{{" and "}}" are
\* literal braces, a single "}" and an unclosed or nested "{" are ValueError,
\* "{}" is IndexError (no positional argument), "{name}" is KeyError unless
\* name is a key of the row
RECURSIVE FormatOk(_, _, _)
FormatOk(t, i, keys) ==
    IF i > Len(t) THEN TRUE
    ELSE IF t[i] = "{"
         THEN (IF i = Len(t) THEN FALSE
               ELSE IF t[i + 1] = "{" THEN FormatOk(t, i + 2, keys)
               ELSE LET k == FirstBrace(t, i + 1)
                    IN  /\ k # 0
                        /\ t[k] = "}"
                        /\ InColumns(SubSeq(t, i + 1, k - 1), keys)
                        /\ FormatOk(t, k + 1, keys))
    ELSE IF t[i] = "}"
         THEN (i < Len(t) /\ t[i + 1] = "}" /\ FormatOk(t, i + 2, keys))
    ELSE FormatOk(t, i + 1, keys)

\* lines 59-62 and 70 of send_email
RenderOk(template_content, row) ==
    \E without_cr \in {RemoveCR(template_content)} :
        \E format_string \in {ToFormatSyntax(without_cr)} :
            \E keys \in {DOMAIN row} : FormatOk(format_string, 1, keys)


\* ------------------------------------------------------------ collaborators
\* ses_client.send_email: the service accepts the message ("ok") or the call
\* raises ("error"); a destination that is no str (nan) never passes the
\* client's parameter validation
SesOutcomes(receiver_email) ==
    IF receiver_email = NaN THEN {"error"} ELSE {"ok", "error"}

\* table.put_item inside save_to_dynamodb: the item is stored ("ok"), the call
\* raises ClientError ("client_error"), or something else is raised ("raise":
\* a connection failure, an unset table name, a value the serializer refuses,
\* such as a float)
PutOutcomes(item) ==
    IF item.recipient_email = NaN THEN {"raise"} ELSE {"ok", "client_error", "raise"}

\* ------------------------------------------------------------------- state
VARIABLES
    pc,                 \* where each invocation of lambda_handler stands
    event,              \* the request it received
    run_id,             \* line 128
    template_content,   \* line 138
    sheet,              \* what read_sheet_data_from_s3 did: "unread", "error", "empty", "rows"
    data,               \* line 139
    columns,            \* line 139
    rowIdx,             \* the row the for loop of line 152 stands at
    status,             \* line 153
    failed_recipients,  \* line 151
    response,           \* what lambda_handler returned
    dispatching,        \* history: line 150 was reached
    s3Gets,             \* history: number of s3.get_object calls
    statuses,           \* history: the status send_email returned for each row so far
    sesCalls,           \* history: the calls of ses_client.send_email
    putCalls,           \* history: the calls of save_to_dynamodb, with the item and the outcome
    store,              \* the audit table (shared)
    uuidCtr,            \* number of uuid.uuid4() values drawn so far (shared)
    templateFetch,      \* history: what get_template did: "unread", "error", "ok"
    valTemplate,        \* validate_template alone: its template_content
    valColumns,         \* validate_template alone: its columns
    valResult,          \* validate_template alone: what it returned
    valDone,            \* validate_template alone: it has returned
    listTable,          \* list_files: the items of the file table, in scan order
    listEvent,          \* list_files: queryStringParameters of the request
    listResult,         \* list_files: the result the handler returned (lines 69-72)
    listPc,             \* list_files: "idle", "request" or "returned"
    listSeen            \* history: the file_ids the pages returned so far

vars == <<pc, event, run_id, template_content, sheet, data, columns, rowIdx, status,
          failed_recipients, response, dispatching, s3Gets, statuses, sesCalls,
          putCalls, store, uuidCtr, templateFetch, valTemplate, valColumns,
          valResult, valDone, listTable, listEvent, listResult, listPc, listSeen>>

\* the state of validate_template called on its own
valVars == <<valTemplate, valColumns, valResult, valDone>>

\* the state of the list_files handler and of the client walking its pages
listVars == <<listTable, listEvent, listResult, listPc, listSeen>>

\* the state of lambda_handler of send-email
sendVars == <<pc, event, run_id, template_content, sheet, data, columns, rowIdx, status,
              failed_recipients, response, dispatching, s3Gets, statuses, sesCalls,
              putCalls, store, uuidCtr, templateFetch>>

\* what lambda_handler of send-email never touches
otherVars == <<valVars, listVars>>

NoResponse ==
    [statusCode |-> 0, kind |-> "none", missing |-> <<>>, request_id |-> NoId,
     sqs_message_id |-> NoId, has_failed_recipients |-> FALSE,
     failed_recipients |-> <<>>, error |-> ""]

\* no invocation of the dispatcher has started
InitSend ==
    /\ pc = [r \in Runs |-> "start"]
    /\ event = [r \in Runs |-> NoEvent]
    /\ run_id = [r \in Runs |-> NoId]
    /\ template_content = [r \in Runs |-> <<>>]
    /\ sheet = [r \in Runs |-> "unread"]
    /\ data = [r \in Runs |-> <<>>]
    /\ columns = [r \in Runs |-> {}]
    /\ rowIdx = [r \in Runs |-> 0]
    /\ status = [r \in Runs |-> "none"]
    /\ failed_recipients = [r \in Runs |-> <<>>]
    /\ response = [r \in Runs |-> NoResponse]
    /\ dispatching = [r \in Runs |-> FALSE]
    /\ s3Gets = [r \in Runs |-> 0]
    /\ statuses = [r \in Runs |-> <<>>]
    /\ sesCalls = [r \in Runs |-> <<>>]
    /\ putCalls = [r \in Runs |-> <<>>]
    /\ store = {}
    /\ uuidCtr = 0
    /\ templateFetch = [r \in Runs |-> "unread"]

\* validate_template is not under test
InitValIdle ==
    /\ valTemplate = <<>>
    /\ valColumns = {}
    /\ valResult = <<>>
    /\ valDone = FALSE

\* ------------------------------------------------- list_files, values
\* limit = 10 (lines 21 and 29)
DefaultLimit == 10

\* no key: response.get("LastEvaluatedKey") is None
NoKey == [file_id |-> 0]

\* the query-string value of last_evaluated_key: the JSON text of a key
\* (json |-> TRUE) or a bare file_id; file_id 0 stands for no parameter
NoToken == [json |-> FALSE, file_id |-> 0]

\* queryStringParameters without any of the five parameters (or None, or {}):
\* limit 0, no extensions and None stand for an absent parameter
NoParams ==
    [limit |-> 0, last_evaluated_key |-> NoToken, sort_by |-> None,
     sort_order |-> None, file_extension |-> <<>>]

\* nothing returned yet
NoResult == [data |-> <<>>, last_evaluated_key |-> NoKey]

\* no request to list_files
InitListIdle ==
    /\ listTable = <<>>
    /\ listEvent = NoParams
    /\ listResult = NoResult
    /\ listPc = "idle"
    /\ listSeen = {}

Init == InitSend /\ InitValIdle /\ InitListIdle


\* ----------------------------------------------------- lambda_handler, pieces
\* line 128: body.get("run_id") if body.get("run_id") else uuid.uuid4().hex
ResolveRunId(supplied, fresh) == IF IdTruthy(supplied) THEN supplied ELSE fresh

\* line 130 with display_name forgotten
RequiredPresentNoDisplayName(ev) ==
    /\ Truthy(ev.template_file_id)
    /\ Truthy(ev.spreadsheet_file_id)
    /\ Truthy(ev.subject)

\* line 130, negated
RequiredPresent(ev) ==
    /\ Truthy(ev.template_file_id)
    /\ Truthy(ev.spreadsheet_file_id)
    /\ Truthy(ev.subject)
    /\ Truthy(ev.display_name)

\* line 142 rejecting only when several placeholders are unmatched
HasMissingSeveral(missing_columns) == Len(missing_columns) > 1

\* line 142: if missing_columns
HasMissing(missing_columns) == missing_columns # <<>>

\* lines 64-70: send_email gets as far as ses_client.send_email
ReachesProvider(template, row) ==
    /\ Truthy(RowGet(row, "Email"))
    /\ RenderOk(template, row)

\* lines 67, 88, 91: the status send_email returns
StatusOf(outcome) == IF outcome = "ok" THEN "SUCCESS" ELSE "FAILED"

\* line 73 made again when the provider refuses: a retry
SesCallsRetried(calls, call) ==
    IF call.outcome = "error" THEN calls \o <<call, call>> ELSE Append(calls, call)

\* line 73: one call of ses_client.send_email
SesCallsAfter(calls, call) == Append(calls, call)

\* line 152 skipping a row
AdvanceTwo(i) == i + 2

\* line 152: the for loop takes the next row
Advance(i) == i + 1

\* the audit table after put_item accepted an item: records accumulate
StorePut(table, item) == table \cup {item}

\* lines 154-155 appending only an address that is there
NoteFailureWithAddress(failed, st, row) ==
    IF st = "FAILED" /\ Truthy(RowGet(row, "Email"))
    THEN Append(failed, RowGet(row, "Email")) ELSE failed

\* lines 154-155 without the test of line 154
NoteFailureAlways(failed, st, row) == Append(failed, RowGet(row, "Email"))

\* lines 154-155
NoteFailure(failed, st, row) ==
    IF st = "FAILED" THEN Append(failed, RowGet(row, "Email")) ELSE failed

\* lines 102-111 with a run identifier drawn per record
AuditItemFreshRunId(rid, email_id, ev, st, row) ==
    [run_id |-> email_id, email_id |-> email_id, display_name |-> ev.display_name,
     status |-> st, recipient_email |-> RowGet(row, "Email"),
     template_file_id |-> ev.template_file_id,
     spreadsheet_file_id |-> ev.spreadsheet_file_id]

\* lines 102-111 with line 158 giving every record the same email_id
AuditItemSameEmailId(rid, email_id, ev, st, row) ==
    [run_id |-> rid, email_id |-> Uuid(0), display_name |-> ev.display_name,
     status |-> st, recipient_email |-> RowGet(row, "Email"),
     template_file_id |-> ev.template_file_id,
     spreadsheet_file_id |-> ev.spreadsheet_file_id]

\* lines 102-111 (created_at, a wall-clock reading, is left out)
AuditItem(rid, email_id, ev, st, row) ==
    [run_id |-> rid, email_id |-> email_id, display_name |-> ev.display_name,
     status |-> st, recipient_email |-> RowGet(row, "Email"),
     template_file_id |-> ev.template_file_id,
     spreadsheet_file_id |-> ev.spreadsheet_file_id]

\* lines 131-136
MissingFieldsResponse ==
    [NoResponse EXCEPT !.statusCode = 400, !.kind = "missing_fields"]

\* lines 143-148
MissingColumnsResponse(missing_columns) ==
    [NoResponse EXCEPT !.statusCode = 400, !.kind = "missing_columns",
                       !.missing = missing_columns]

\* lines 181-183 missing: the exception leaves the handler
ExceptionEscapes(e) ==
    [NoResponse EXCEPT !.kind = "exception", !.error = e]

\* lines 181-183: the body carries str(e)
ErrorResponse(e) ==
    [NoResponse EXCEPT !.statusCode = 500, !.kind = "internal_error", !.error = e]

\* lines 167-179
SummaryResponse(rid, sqs_id, failed) ==
    IF failed # <<>>
    THEN [NoResponse EXCEPT !.statusCode = 207, !.kind = "summary", !.request_id = rid,
                            !.sqs_message_id = sqs_id, !.has_failed_recipients = TRUE,
                            !.failed_recipients = failed]
    ELSE [NoResponse EXCEPT !.statusCode = 200, !.kind = "summary", !.request_id = rid,
                            !.sqs_message_id = sqs_id]

\* return
Return(r, resp) ==
    /\ pc' = [pc EXCEPT ![r] = "done"]
    /\ response' = [response EXCEPT ![r] = resp]

\* ----------------------------------------------------------------- actions
\* lines 123-136
HandleRequest(r) ==
    /\ pc[r] = "start"
    /\ \E ev \in Events :
         /\ event' = [event EXCEPT ![r] = ev]
         /\ IF ev.kind = "malformed"
            THEN /\ Return(r, ErrorResponse("json.loads"))
                 /\ UNCHANGED <<run_id, uuidCtr>>
            ELSE /\ run_id' = [run_id EXCEPT ![r] = ResolveRunId(ev.run_id, Uuid(uuidCtr + 1))]
                 /\ uuidCtr' = IF IdTruthy(ev.run_id) THEN uuidCtr ELSE uuidCtr + 1
                 /\ IF RequiredPresent(ev)
                    THEN /\ pc' = [pc EXCEPT ![r] = "get_template"]
                         /\ UNCHANGED response
                    ELSE Return(r, MissingFieldsResponse)
    /\ UNCHANGED <<template_content, sheet, data, columns, rowIdx, status,
                   failed_recipients, dispatching, s3Gets, statuses, sesCalls,
                   putCalls, store>>
    /\ UNCHANGED <<templateFetch, otherVars>>

\* line 138, get_template returns
GetTemplateOk(r) ==
    /\ pc[r] = "get_template"
    /\ s3Gets' = [s3Gets EXCEPT ![r] = @ + 1]
    /\ \E t \in Templates : template_content' = [template_content EXCEPT ![r] = t]
    /\ pc' = [pc EXCEPT ![r] = "read_sheet"]
    /\ UNCHANGED <<event, run_id, sheet, data, columns, rowIdx, status,
                   failed_recipients, response, dispatching, statuses, sesCalls,
                   putCalls, store, uuidCtr>>
    /\ templateFetch' = [templateFetch EXCEPT ![r] = "ok"]
    /\ UNCHANGED otherVars

\* line 138, get_template raises (lines 23-25), caught at line 181
GetTemplateFail(r) ==
    /\ pc[r] = "get_template"
    /\ s3Gets' = [s3Gets EXCEPT ![r] = @ + 1]
    /\ Return(r, ErrorResponse("get_template"))
    /\ UNCHANGED <<event, run_id, template_content, sheet, data, columns, rowIdx,
                   status, failed_recipients, dispatching, statuses, sesCalls,
                   putCalls, store, uuidCtr>>
    /\ templateFetch' = [templateFetch EXCEPT ![r] = "error"]
    /\ UNCHANGED otherVars

\* line 139 with the failure of the read taken for a sheet without rows
ReadSheetFailAsNoRows(r) ==
    /\ pc[r] = "read_sheet"
    /\ s3Gets' = [s3Gets EXCEPT ![r] = @ + 1]
    /\ sheet' = [sheet EXCEPT ![r] = "error"]
    /\ pc' = [pc EXCEPT ![r] = "loop"]
    /\ rowIdx' = [rowIdx EXCEPT ![r] = 1]
    /\ dispatching' = [dispatching EXCEPT ![r] = TRUE]
    /\ UNCHANGED <<event, run_id, template_content, data, columns, status,
                   failed_recipients, response, statuses, sesCalls, putCalls,
                   store, uuidCtr, templateFetch, otherVars>>

\* line 139, read_sheet_data_from_s3 raises (lines 43-45)
ReadSheetFail(r) ==
    /\ pc[r] = "read_sheet"
    /\ s3Gets' = [s3Gets EXCEPT ![r] = @ + 1]
    /\ sheet' = [sheet EXCEPT ![r] = "error"]
    /\ Return(r, ErrorResponse("read_sheet_data_from_s3"))
    /\ UNCHANGED <<event, run_id, template_content, data, columns, rowIdx, status,
                   failed_recipients, dispatching, statuses, sesCalls, putCalls,
                   store, uuidCtr>>
    /\ UNCHANGED <<templateFetch, otherVars>>

\* line 139 on an empty sheet: lines 39-40 return three values, and
\* "data, columns = ..." raises ValueError (too many values to unpack)
ReadSheetEmpty(r) ==
    /\ pc[r] = "read_sheet"
    /\ s3Gets' = [s3Gets EXCEPT ![r] = @ + 1]
    /\ sheet' = [sheet EXCEPT ![r] = "empty"]
    /\ Return(r, ErrorResponse("too many values to unpack"))
    /\ UNCHANGED <<event, run_id, template_content, data, columns, rowIdx, status,
                   failed_recipients, dispatching, statuses, sesCalls, putCalls,
                   store, uuidCtr>>
    /\ UNCHANGED <<templateFetch, otherVars>>

\* lines 139-151 on a sheet with rows
ReadSheetRows(r) ==
    /\ pc[r] = "read_sheet"
    /\ s3Gets' = [s3Gets EXCEPT ![r] = @ + 1]
    /\ sheet' = [sheet EXCEPT ![r] = "rows"]
    /\ \E tb \in Tables :
         /\ data' = [data EXCEPT ![r] = tb.rows]
         /\ columns' = [columns EXCEPT ![r] = tb.columns]
         /\ LET missing_columns == validate_template(template_content[r], tb.columns)
            IN  IF HasMissing(missing_columns)
                THEN /\ Return(r, MissingColumnsResponse(missing_columns))
                     /\ UNCHANGED <<rowIdx, dispatching>>
                ELSE /\ pc' = [pc EXCEPT ![r] = "loop"]
                     /\ rowIdx' = [rowIdx EXCEPT ![r] = 1]
                     /\ dispatching' = [dispatching EXCEPT ![r] = TRUE]
                     /\ UNCHANGED response
    /\ UNCHANGED <<event, run_id, template_content, status, failed_recipients,
                   statuses, sesCalls, putCalls, store, uuidCtr>>
    /\ UNCHANGED <<templateFetch, otherVars>>

\* lines 153-155: send_email on the next row, then the failed-recipients list
SendEmail(r) ==
    /\ pc[r] = "loop"
    /\ rowIdx[r] <= Len(data[r])
    /\ LET row == data[r][rowIdx[r]]
           called == ReachesProvider(template_content[r], row)
       IN  \E outcome \in (IF called THEN SesOutcomes(RowGet(row, "Email"))
                                     ELSE {"not_called"}) :
             /\ sesCalls' = [sesCalls EXCEPT ![r] =
                    IF called
                    THEN SesCallsAfter(@, [row |-> rowIdx[r], to |-> RowGet(row, "Email"),
                                           outcome |-> outcome])
                    ELSE @]
             /\ status' = [status EXCEPT ![r] = StatusOf(outcome)]
             /\ statuses' = [statuses EXCEPT ![r] = Append(@, StatusOf(outcome))]
             /\ failed_recipients' = [failed_recipients EXCEPT ![r] =
                    NoteFailure(@, StatusOf(outcome), row)]
    /\ pc' = [pc EXCEPT ![r] = "save"]
    /\ UNCHANGED <<event, run_id, template_content, sheet, data, columns, rowIdx,
                   response, dispatching, s3Gets, putCalls, store, uuidCtr>>
    /\ UNCHANGED <<templateFetch, otherVars>>

\* lines 156-165: save_to_dynamodb for the row just sent
SaveToDynamoDB(r) ==
    /\ pc[r] = "save"
    /\ uuidCtr' = uuidCtr + 1
    /\ LET item == AuditItem(run_id[r], Uuid(uuidCtr + 1), event[r], status[r],
                             data[r][rowIdx[r]])
       IN  \E outcome \in PutOutcomes(item) :
             /\ putCalls' = [putCalls EXCEPT ![r] =
                    Append(@, [row |-> rowIdx[r], item |-> item, outcome |-> outcome])]
             /\ store' = IF outcome = "ok" THEN StorePut(store, item) ELSE store
             /\ IF outcome = "raise"
                THEN /\ Return(r, ErrorResponse("save_to_dynamodb"))
                     /\ UNCHANGED rowIdx
                ELSE /\ pc' = [pc EXCEPT ![r] = "loop"]
                     /\ rowIdx' = [rowIdx EXCEPT ![r] = Advance(@)]
                     /\ UNCHANGED response
    /\ UNCHANGED <<event, run_id, template_content, sheet, data, columns, status,
                   failed_recipients, dispatching, s3Gets, statuses, sesCalls>>
    /\ UNCHANGED <<templateFetch, otherVars>>

\* lines 167-179
Respond(r) ==
    /\ pc[r] = "loop"
    /\ rowIdx[r] > Len(data[r])
    /\ uuidCtr' = uuidCtr + 1
    /\ Return(r, SummaryResponse(run_id[r], Uuid(uuidCtr + 1), failed_recipients[r]))
    /\ UNCHANGED <<event, run_id, template_content, sheet, data, columns, rowIdx,
                   status, failed_recipients, dispatching, s3Gets, statuses,
                   sesCalls, putCalls, store>>
    /\ UNCHANGED <<templateFetch, otherVars>>

Step(r) ==
    \/ HandleRequest(r)
    \/ GetTemplateOk(r)
    \/ GetTemplateFail(r)
    \/ ReadSheetFail(r)
    \/ ReadSheetEmpty(r)
    \/ ReadSheetRows(r)
    \/ SendEmail(r)
    \/ SaveToDynamoDB(r)
    \/ Respond(r)

\* one invocation of the handler: the other run of Runs is never started
Next == Step("r1")

Spec == Init /\ [][Next]_vars

\* ------------------------------------------- two invocations of lambda_handler
\* a request with the four required fields and the given run_id
GoodEvent(id) ==
    [kind |-> "object", template_file_id |-> "given", spreadsheet_file_id |-> "given",
     subject |-> "given", display_name |-> "given", run_id |-> id]

\* the requests, templates and tables the two invocations are given: a body
\* that cannot be read, a request with a run_id of the caller's and one
\* without; a template without placeholders; one or two rows with an address
TwoRunInputs ==
    \A r \in Runs :
        /\ event[r] \in {NoEvent, MalformedEvent, GoodEvent(CallerId), GoodEvent(NoId)}
        /\ template_content[r] \in {<<>>, <<"Hi">>}
        /\ templateFetch[r] = "ok" => template_content[r] = <<"Hi">>
        /\ columns[r] \in {{}, {"Name", "Email"}}
        /\ Len(data[r]) <= 2
        /\ \A k \in DOMAIN data[r] : RowGet(data[r][k], "Email") = "a@example.com"

\* the two invocations run concurrently (two Lambda instances), sharing the
\* audit table; their steps interleave in any order
NextTwo ==
    \E r \in Runs :
        \/ HandleRequest(r) /\ TwoRunInputs'
        \/ GetTemplateOk(r) /\ TwoRunInputs'
        \/ GetTemplateFail(r)
        \/ ReadSheetFail(r)
        \/ ReadSheetEmpty(r)
        \/ ReadSheetRows(r) /\ TwoRunInputs'
        \/ SendEmail(r)
        \/ SaveToDynamoDB(r)
        \/ Respond(r)

SpecTwo == Init /\ [][NextTwo]_vars

\* ------------------------------------------------------------ list_files
Extensions == {"txt", "pdf"}

\* the file tables of up to MaxFiles items, in the order a Scan visits them
FileTables ==
    UNION {[1..n -> Extensions \X {1, 2}] : n \in 0..MaxFiles}

FileItem(k, e, c) == [file_id |-> k, file_extension |-> e, created_at |-> c]

\* the first request of a client: any page size, filter and sort, no token
ListEvents ==
    [limit : 0..MaxLimit, last_evaluated_key : {NoToken},
     sort_by : {None, "file_id"}, sort_order : {None, "ASC"},
     file_extension : {<<>>, <<"txt">>, <<"txt", "pdf">>}]

\* lines 21, 29
LimitOf(ev) == IF ev.limit = 0 THEN DefaultLimit ELSE ev.limit

\* lines 24, 33
SortByOf(ev) == IF ev.sort_by = None THEN "created_at" ELSE ev.sort_by

\* lines 25, 34, 66
ReverseOrder(ev) == ev.sort_order = None \/ ev.sort_order = "DESC"

\* lines 42-48: no FilterExpression, or the OR of Attr("file_extension").eq(ext)
Matches(item, extensions) ==
    extensions = <<>> \/ \E j \in DOMAIN extensions : item.file_extension = extensions[j]

\* lines 50-58: json.loads of the token, or the token taken as the file_id
StartKeyOf(token) ==
    IF token.file_id = 0 THEN NoKey
    ELSE IF token.json THEN [file_id |-> token.file_id]
    ELSE [file_id |-> token.file_id]

\* the position of the item a key names (0 for no key)
RECURSIVE PositionOf(_, _, _)
PositionOf(table, key, j) ==
    IF j > Len(table) THEN 0
    ELSE IF table[j].file_id = key.file_id THEN j
    ELSE PositionOf(table, key, j + 1)

\* line 60: table.scan(Limit, FilterExpression, ExclusiveStartKey). The scan
\* reads at most Limit items after the start key, returns those of them the
\* filter keeps, and returns the key of the last item read when it stopped at
\* Limit
Scan(table, limit, extensions, startKey) ==
    LET start == PositionOf(table, startKey, 1)
        last == IF start + limit <= Len(table) THEN start + limit ELSE Len(table)
        read == SubSeq(table, start + 1, last)
    IN  [Items |-> SelectSeq(read, LAMBDA item : Matches(item, extensions)),
         LastEvaluatedKey |-> IF Len(read) = limit THEN [file_id |-> table[last].file_id]
                              ELSE NoKey]

\* list.sort is stable, also with reverse=True
RECURSIVE InsertSorted(_, _, _, _)
InsertSorted(files, x, sort_by, reverse) ==
    IF files = <<>> THEN <<x>>
    ELSE IF (IF reverse THEN Head(files)[sort_by] < x[sort_by]
                        ELSE Head(files)[sort_by] > x[sort_by])
         THEN <<x>> \o files
         ELSE <<Head(files)>> \o InsertSorted(Tail(files), x, sort_by, reverse)

\* line 67: files.sort(key=lambda x: x.get(sort_by, ""), reverse=reverse_order)
RECURSIVE SortFiles(_, _, _)
SortFiles(files, sort_by, reverse) ==
    IF files = <<>> THEN <<>>
    ELSE InsertSorted(SortFiles(SubSeq(files, 1, Len(files) - 1), sort_by, reverse),
                      files[Len(files)], sort_by, reverse)

\* lines 62-72
ListResult(scanned, ev) ==
    [data |-> SortFiles(scanned.Items, SortByOf(ev), ReverseOrder(ev)),
     last_evaluated_key |-> scanned.LastEvaluatedKey]

\* a client sends its first request
InitListWalk ==
    /\ \E t \in FileTables :
         listTable = [k \in DOMAIN t |-> FileItem(k, t[k][1], t[k][2])]
    /\ listEvent \in ListEvents
    /\ listResult = NoResult
    /\ listPc = "request"
    /\ listSeen = {}

\* lines 19-78: one invocation of the handler
ListFiles ==
    /\ listPc = "request"
    /\ LET scanned == Scan(listTable, LimitOf(listEvent), listEvent.file_extension,
                           StartKeyOf(listEvent.last_evaluated_key))
           result == ListResult(scanned, listEvent)
       IN  /\ listResult' = result
           /\ listSeen' = listSeen \cup {result.data[j].file_id : j \in DOMAIN result.data}
    /\ listPc' = "returned"
    /\ UNCHANGED <<listTable, listEvent, sendVars, valVars>>

\* the client asks for the next page: it passes the returned key back, as JSON
\* text or as the bare file_id
NextPage ==
    /\ listPc = "returned"
    /\ listResult.last_evaluated_key # NoKey
    /\ \E json \in BOOLEAN :
         listEvent' = [listEvent EXCEPT !.last_evaluated_key =
                          [json |-> json, file_id |-> listResult.last_evaluated_key.file_id]]
    /\ listPc' = "request"
    /\ UNCHANGED <<listTable, listResult, listSeen, sendVars, valVars>>

InitList == InitSend /\ InitValIdle /\ InitListWalk

NextList == ListFiles \/ NextPage

SpecList == InitList /\ [][NextList]_vars

\* ------------------------------------------------ validate_template on its own
\* the pieces a template is put together from: whole placeholders, opening and
\* closing pairs, single braces, a line feed, a word
ValSegments ==
    {PH("Name"), PH("Phone"), <<"{", "{">>, <<"}", "}">>, <<"{">>, <<"}">>,
     <<"\n">>, <<"Name">>}

RECURSIVE ValConcats(_)
ValConcats(n) ==
    IF n = 0 THEN {<<>>}
    ELSE ValConcats(n - 1) \cup {t \o s : t \in ValConcats(n - 1), s \in ValSegments}

ValTemplates == ValConcats(MaxValSegs)

ValColumnSets == {{}, {"Name"}, {"Phone"}, {"Name", "Phone"}}

\* validate_template is about to be called with any template and column set
InitVal ==
    /\ valTemplate \in ValTemplates
    /\ valColumns \in ValColumnSets
    /\ valResult = <<>>
    /\ valDone = FALSE

\* lines 48-52: one call of validate_template
ValidateTemplate ==
    /\ ~valDone
    /\ valResult' = validate_template(valTemplate, valColumns)
    /\ valDone' = TRUE
    /\ UNCHANGED <<valTemplate, valColumns, sendVars, listVars>>

InitValidate == InitSend /\ InitVal /\ InitListIdle

NextValidate == ValidateTemplate

SpecValidate == InitValidate /\ [][NextValidate]_vars


\* ------------------------------------------------------------------ claims
Done(r) == pc[r] = "done"

\* the run got past input and placeholder validation and returned
Dispatched(r) == Done(r) /\ dispatching[r]

HasRow(calls, k) == \E j \in DOMAIN calls : calls[j].row = k

\* C1: a run over a non-empty table that passed input and placeholder
\* validation has, when the handler returns, made as many save_to_dynamodb
\* puts as the table has rows.
C1_OnePutPerRow ==
    \A r \in Runs : Dispatched(r) => Len(putCalls[r]) = Len(data[r])

\* C2: once the dispatch loop has started, send_email is invoked for every
\* row of the table before the handler returns.
C2_EveryRowAttempted ==
    \A r \in Runs : Dispatched(r) => Len(statuses[r]) = Len(data[r])

\* C3: a failure inside save_to_dynamodb is swallowed: the run still ends with
\* the 200/207 summary, every row has been sent, and the summary reports the
\* rows that failed delivery.
C3_AuditFailureSwallowed ==
    \A r \in Runs :
        (Done(r) /\ \E j \in DOMAIN putCalls[r] : putCalls[r][j].outcome # "ok")
        => /\ response[r].kind = "summary"
           /\ response[r].statusCode \in {200, 207}
           /\ \A k \in 1..Len(data[r]) :
                /\ HasRow(putCalls[r], k)
                /\ k \in DOMAIN statuses[r]
           /\ response[r].has_failed_recipients
                <=> (\E k \in DOMAIN statuses[r] : statuses[r][k] = "FAILED")

\* C4: an empty recipient table ends the run with status 200, no audit
\* record, no delivery attempt and no failed_recipients.
C4_EmptyTableSucceeds ==
    \A r \in Runs :
        (Done(r) /\ sheet[r] = "empty")
        => /\ response[r].statusCode = 200
           /\ ~response[r].has_failed_recipients
           /\ statuses[r] = <<>>
           /\ sesCalls[r] = <<>>
           /\ putCalls[r] = <<>>

\* C5: a run that returns 400 or 500 has attempted no delivery and written no
\* audit record.
C5_ErrorMeansNothingDispatched ==
    \A r \in Runs :
        (Done(r) /\ response[r].statusCode \in {400, 500})
        => /\ statuses[r] = <<>>
           /\ sesCalls[r] = <<>>
           /\ putCalls[r] = <<>>

\* a request whose body is an object lacking a required field
MissingRequired(ev) ==
    /\ ev.kind = "object"
    /\ \/ ev.template_file_id \in {None, ""}
       \/ ev.spreadsheet_file_id \in {None, ""}
       \/ ev.subject \in {None, ""}
       \/ ev.display_name \in {None, ""}

C7_UnmatchedPlaceholderRejected ==
    \A r \in Runs :
        (sheet[r] = "rows" /\ validate_template(template_content[r], columns[r]) # <<>>)
        => /\ Done(r)
           /\ response[r].statusCode = 400
           /\ response[r].kind = "missing_columns"
           /\ response[r].missing = validate_template(template_content[r], columns[r])
           /\ \A k \in DOMAIN response[r].missing :
                ~(\E c \in columns[r] : response[r].missing[k] = <<c>>)
           /\ statuses[r] = <<>>
           /\ sesCalls[r] = <<>>
           /\ putCalls[r] = <<>>

C7_Witness ==
    \E r \in Runs :
        /\ Done(r)
        /\ template_content[r] = PH("Name") \o PH("Phone")
        /\ data[r] # <<>>
        /\ response[r].statusCode = 400
        /\ response[r].missing = << <<"Phone">> >>

\* C8: every audit record of a run carries one run identifier: the caller's
\* run_id when one is given, otherwise one generated identifier; the summary
\* returns that same identifier.
C8_OneRunIdPerRun ==
    \A r \in Runs :
        \A j \in DOMAIN putCalls[r] :
            LET rec == putCalls[r][j].item
            IN  /\ \A k \in DOMAIN putCalls[r] : putCalls[r][k].item.run_id = rec.run_id
                /\ event[r].run_id = CallerId => rec.run_id = CallerId
                /\ event[r].run_id # CallerId => rec.run_id[1] = "uuid4"
                /\ rec.run_id # rec.email_id
                /\ response[r].kind = "summary" => response[r].request_id = rec.run_id

C8_Witness ==
    \E r \in Runs :
        /\ Done(r)
        /\ response[r].kind = "summary"
        /\ event[r].run_id = NoId
        /\ Len(putCalls[r]) >= 2
        /\ \E j \in DOMAIN putCalls[r] : putCalls[r][j].outcome = "ok"

\* a row with no usable Email value: no Email column, or an empty cell
LacksAddress(row) == RowGet(row, "Email") \notin Addresses

\* C9: for a row without a recipient address ses_client.send_email is never
\* called and the row is recorded FAILED.
C9_NoAddressNoDelivery ==
    \A r \in Runs :
        \A k \in DOMAIN statuses[r] :
            LacksAddress(data[r][k])
            => /\ ~HasRow(sesCalls[r], k)
               /\ statuses[r][k] = "FAILED"
               /\ \A j \in DOMAIN putCalls[r] :
                    putCalls[r][j].row = k => putCalls[r][j].item.status = "FAILED"

\* C10: a run that completes the loop returns 207 with failed_recipients
\* exactly when some row's delivery status is FAILED, and otherwise 200
\* without failed_recipients.
C10_PartialIffSomeRowFailed ==
    \A r \in Runs :
        response[r].kind = "summary"
        => LET someFailed == \E k \in DOMAIN statuses[r] : statuses[r][k] = "FAILED"
           IN  /\ Len(statuses[r]) = Len(data[r])
               /\ response[r].statusCode = (IF someFailed THEN 207 ELSE 200)
               /\ response[r].has_failed_recipients <=> someFailed
               /\ someFailed => response[r].failed_recipients # <<>>

C10_Witness ==
    \E r \in Runs :
        /\ Done(r)
        /\ response[r].statusCode = 207
        /\ \E k \in DOMAIN statuses[r] : statuses[r][k] = "SUCCESS"
        /\ \E j \in DOMAIN sesCalls[r] : sesCalls[r][j].outcome = "error"
        /\ response[r].failed_recipients # <<>>


\* C11: when get_template or read_sheet_data_from_s3 fails, the run ends with
\* a 500 response and no row is attempted: no SES call and no audit put.
C11_FetchFailureAborts ==
    \A r \in Runs :
        (templateFetch[r] = "error" \/ sheet[r] = "error")
        => /\ Done(r)
           /\ response[r].statusCode = 500
           /\ statuses[r] = <<>>
           /\ sesCalls[r] = <<>>
           /\ putCalls[r] = <<>>

C11_Witness ==
    \E r \in Runs :
        /\ Done(r)
        /\ templateFetch[r] = "ok"
        /\ sheet[r] = "error"
        /\ s3Gets[r] = 2
        /\ response[r].statusCode = 500

\* C15: rows are processed one at a time in table order: the k-th record is
\* the one of row k and is written after row k's delivery attempt and before
\* row k+1's; the loop stands at the first row not yet sent.
C15_SequentialInTableOrder ==
    \A r \in Runs :
        /\ Len(putCalls[r]) <= Len(statuses[r])
        /\ Len(statuses[r]) <= Len(putCalls[r]) + 1
        /\ Len(statuses[r]) <= Len(data[r])
        /\ pc[r] = "save" => (Len(statuses[r]) = Len(putCalls[r]) + 1
                              /\ rowIdx[r] = Len(statuses[r]))
        /\ pc[r] = "loop" => (Len(statuses[r]) = Len(putCalls[r])
                              /\ rowIdx[r] = Len(statuses[r]) + 1)
        /\ \A j \in DOMAIN putCalls[r] :
             /\ putCalls[r][j].row = j
             /\ putCalls[r][j].item.recipient_email = RowGet(data[r][j], "Email")
             /\ putCalls[r][j].item.status = statuses[r][j]
        /\ \A j, k \in DOMAIN sesCalls[r] :
             j < k => sesCalls[r][j].row < sesCalls[r][k].row

C15_Witness ==
    \E r \in Runs :
        /\ pc[r] = "save"
        /\ rowIdx[r] = 2
        /\ Len(putCalls[r]) = 1
        /\ Len(sesCalls[r]) = 2

\* C16: a row's status is SUCCESS exactly when the provider accepted its
\* send; a row that failed (missing address, rendering, provider) is FAILED
\* and the run goes on to the next row.
C16_FailedRowDoesNotStopRun ==
    \A r \in Runs :
        \A k \in DOMAIN statuses[r] :
            /\ statuses[r][k] = "SUCCESS"
                 <=> (\E j \in DOMAIN sesCalls[r] :
                         sesCalls[r][j].row = k /\ sesCalls[r][j].outcome = "ok")
            /\ (Done(r) /\ statuses[r][k] = "FAILED" /\ k < Len(data[r]))
                 => k + 1 \in DOMAIN statuses[r]

\* the Email values of the first k rows whose status is FAILED, in table order
RECURSIVE FailedAddresses(_, _, _)
FailedAddresses(rows, sts, k) ==
    IF k = 0 THEN <<>>
    ELSE FailedAddresses(rows, sts, k - 1)
         \o (IF sts[k] = "FAILED" THEN <<RowGet(rows[k], "Email")>> ELSE <<>>)

\* C17: the failed-recipients list holds one entry, the row's Email value,
\* for each processed row whose status is FAILED, in table order, and none for
\* a SUCCESS row; the summary returns that list.
C17_FailedListMatchesStatuses ==
    \A r \in Runs :
        /\ failed_recipients[r] = FailedAddresses(data[r], statuses[r], Len(statuses[r]))
        /\ Len(failed_recipients[r])
             = Cardinality({k \in DOMAIN statuses[r] : statuses[r][k] = "FAILED"})
        /\ response[r].kind = "summary"
             => response[r].failed_recipients = failed_recipients[r]

C17_Witness ==
    \E r \in Runs :
        /\ Done(r)
        /\ response[r].kind = "summary"
        /\ statuses[r] = <<"FAILED", "SUCCESS">>
        /\ response[r].failed_recipients = <<"a@example.com">>

\* the steps an invocation can still take, at most
Rank(r) ==
    CASE pc[r] = "start"        -> 2 * MaxRows + 5
      [] pc[r] = "get_template" -> 2 * MaxRows + 4
      [] pc[r] = "read_sheet"   -> 2 * MaxRows + 3
      [] pc[r] = "loop"         -> 2 * (Len(data[r]) + 1 - rowIdx[r]) + 1
      [] pc[r] = "save"         -> 2 * (Len(data[r]) + 1 - rowIdx[r])
      [] OTHER                  -> 0

\* C19: every invocation ends by returning 200, 207, 400 or 500, whatever the
\* collaborators do: an invocation that has not returned can take a step,
\* every step brings it closer to its return, and what it returns carries one
\* of the four status codes.
C19_AlwaysReturnsAResponse ==
    /\ [](\A r \in Runs :
            /\ Done(r) => response[r].statusCode \in {200, 207, 400, 500}
            /\ ~Done(r) => (ENABLED Step(r) /\ response[r] = NoResponse)
            /\ Rank(r) >= 0)
    /\ [][\E r \in Runs : Rank(r)' < Rank(r)]_vars

C19_Witness ==
    \E r \in Runs :
        /\ Done(r)
        /\ response[r].statusCode = 500
        /\ \E j \in DOMAIN putCalls[r] : putCalls[r][j].outcome = "raise"
        /\ \E j \in DOMAIN sesCalls[r] : sesCalls[r][j].outcome = "error"

\* C20: ses_client.send_email is called at most once per row of a run: no
\* retry after a failure, no second send.
C20_AtMostOneSendPerRow ==
    \A r \in Runs :
        \A j, k \in DOMAIN sesCalls[r] :
            sesCalls[r][j].row = sesCalls[r][k].row => j = k

C20_Witness ==
    \E r \in Runs :
        /\ Done(r)
        /\ Len(data[r]) = 2
        /\ Len(sesCalls[r]) = 2
        /\ sesCalls[r][1].outcome = "error"

\* "}}" stands at position k of t
ClosesAt(t, k) == k + 1 <= Len(t) /\ t[k] = "}" /\ t[k + 1] = "}"

\* a placeholder {{x}} stands at position i of t and its "}}" at position k:
\* x is the text up to the first "}}" and holds no line feed
PlaceholderAt(t, i, k) ==
    /\ i + 1 <= Len(t)
    /\ t[i] = "{"
    /\ t[i + 1] = "{"
    /\ k >= i + 2
    /\ ClosesAt(t, k)
    /\ \A j \in (i + 2)..(k - 1) : ~ClosesAt(t, j) /\ t[j] # "\n"

PlaceholderNames(t) ==
    {SubSeq(t, i + 2, k - 1) : <<i, k>> \in
        {q \in (1..Len(t)) \X (1..Len(t)) : PlaceholderAt(t, q[1], q[2])}}

C14_TokenIffMoreRemain ==
    listPc = "returned" =>
        (listResult.last_evaluated_key # NoKey
           <=> \E k \in DOMAIN listTable :
                  /\ Matches(listTable[k], listEvent.file_extension)
                  /\ listTable[k].file_id \notin listSeen)

\* C12: the body of a 500 response does not depend on the failure: any two
\* invocations that returned 500 returned the same response.
C12_ServerErrorBodyIsGeneric ==
    \A r, q \in Runs :
        (Done(r) /\ Done(q) /\ response[r].statusCode = 500 /\ response[q].statusCode = 500)
        => response[r] = response[q]

\* the puts of run r the audit table accepted
OkPuts(r) == {j \in DOMAIN putCalls[r] : putCalls[r][j].outcome = "ok"}

\* both runs were given the caller's run_id and returned their summary
SameRunIdBothSummarised ==
    \A r \in Runs :
        /\ Done(r)
        /\ response[r].kind = "summary"
        /\ run_id[r] = CallerId

\* C18 as stated: after two runs with the same caller-supplied run_id the
\* table holds one record per row of each run.
C18_OneRecordPerRowOfEachRun ==
    SameRunIdBothSummarised
    => Cardinality({it \in store : it.run_id = CallerId})
         = Len(data["r1"]) + Len(data["r2"])

\* C18, amended: the records of runs with the same run_id accumulate: every
\* record the table accepted, of either run, is in the table under its run's
\* run_id (none overwritten, none removed), and the table holds one record per
\* accepted put.
C18_RecordsAccumulate ==
    /\ \A r \in Runs : \A j \in OkPuts(r) :
          /\ putCalls[r][j].item \in store
          /\ putCalls[r][j].item.run_id = run_id[r]
    /\ Cardinality(store) = Cardinality(OkPuts("r1")) + Cardinality(OkPuts("r2"))

C18_Witness ==
    /\ SameRunIdBothSummarised
    /\ \A r \in Runs : Len(data[r]) = 2 /\ Cardinality(OkPuts(r)) = 2
    /\ Cardinality({it \in store : it.run_id = CallerId}) = 4
    /\ putCalls["r1"][2].item.email_id[2] > putCalls["r2"][1].item.email_id[2]
    /\ putCalls["r2"][2].item.email_id[2] > putCalls["r1"][1].item.email_id[2]

=============================================================================
